---------------------------- MODULE Spec2Model ----------------------------
(***************************************************************************)
(* oslo.concurrency: named locks (lockutils.py) and the retrying process   *)
(* executor (processutils.py).                                             *)
(*                                                                         *)
(* Strings that the code takes apart (lock names, prefixes, directories)   *)
(* are sequences of one-character strings.  The empty sequence stands for  *)
(* both None and '' (the code only tests them for truth).                  *)
(***************************************************************************)
EXTENDS Integers, Sequences, FiniteSets, TLC

VARIABLES
    proc,           \* thread -> the process it runs in
    disable,        \* process -> CONF.oslo_concurrency.disable_process_locking
    conf_lock_path, \* process -> CONF.oslo_concurrency.lock_path
    semaphores,     \* registry -> Semaphores._semaphores (name -> entry, 0 absent)
    value,          \* entry -> counter of the threading.Semaphore
    reg_lock,       \* registry -> holder of Semaphores._lock ("" when free)
    file_owner,     \* lock file path -> process owning the file lock ("" when free)
    mixed,          \* history: paths in use that one process requested under two keys at once
    pc,             \* thread -> position in lock() / synchronized.inner
    call,           \* thread -> arguments of the call in progress
    int_lock,       \* thread -> entry its int_lock local refers to (0: none)
    exc,            \* thread -> exception in flight or raised to the caller
    ret,            \* thread -> value returned to the caller (0: None)
    t2,             \* thread -> synchronized.inner's t2 is set
    trace,          \* thread -> history of the call's lock events, in order
    fargs,          \* thread -> history of the arguments f was invoked with
    outer,          \* thread -> the call whose critical section made the call in progress
    x_pc,           \* execute(): position
    x_opts,         \* execute(): keyword arguments of the call
    x_attempts,     \* execute(): the local "attempts", counted down
    x_codes,        \* history: outcome of each attempt (exit code, OSErr)
    x_events,       \* history: spawns, callbacks and log records, in order
    x_exc,          \* execute(): exception raised to the caller
    x_exit_code,    \* exit_code of the raised ProcessExecutionError
    x_ret,          \* execute(): what the call returned ("None", "result")
    x_result,       \* execute(): what the last obj.communicate returned
    x_out,          \* execute(): the (stdout, stderr) returned to the caller
    x_err,          \* attributes of the raised ProcessExecutionError
    x_log,          \* history: the texts written to log records
    tc_pc,          \* trycmd(): position
    tc_discard,     \* trycmd(): discard_warnings
    tc_out,         \* trycmd(): the (out, err) returned to the caller
    tc_exc          \* trycmd(): exception raised to the caller

lockVars == <<outer, proc, disable, conf_lock_path, semaphores, value, reg_lock,
              file_owner, mixed, pc, call, int_lock, exc, ret, t2, trace,
              fargs>>

execVars == <<x_pc, x_opts, x_attempts, x_codes, x_events, x_exc,
              x_exit_code, x_ret, x_result, x_out, x_err, x_log>>

tryVars == <<tc_pc, tc_discard, tc_out, tc_exc>>

vars == <<lockVars, execVars, tryVars>>

-----------------------------------------------------------------------------
(* Bounds of the model *)

Threads == {"t1", "t2", "t3"}
Procs == {"p1", "p2"}
Registries == {"default", "custom"}

Sep == "/"
NoneStr == <<>>
NameAB == <<"a", "/", "b">>
NameA_B == <<"a", "_", "b">>
NameC == <<"c">>
Names == {NameAB, NameA_B, NameC}
DirD == <<"/", "d">>
DirE == <<"/", "e">>
Dirs == {DirD, DirE}
PrefixP == <<"p">>
PrefixPHyphen == <<"p", "-">>
Prefixes == {NoneStr, PrefixP, PrefixPHyphen}

\* Entries of one name that can be alive at once are told apart by a
\* generation number; a thread refers to at most one entry.
Gens == 1..(Cardinality(Threads) + 1)

RegIds == Procs \X Registries
Entries == RegIds \X Names \X Gens

-----------------------------------------------------------------------------
(* _get_lock_path *)

Replace(s, old, new) == [i \in DOMAIN s |-> IF s[i] = old THEN new ELSE s[i]]

\* Mutant: a hyphen is added to every prefix
EndsWithNever(s, c) == FALSE

\* s.endswith(c)
EndsWith(s, c) == Len(s) > 0 /\ s[Len(s)] = c

\* os.path.join of a directory and one component
Join(a, b) ==
    IF Len(b) > 0 /\ b[1] = Sep THEN b
    ELSE IF a = <<>> \/ EndsWith(a, Sep) THEN a \o b
    ELSE a \o <<Sep>> \o b

\* Mutant: the name is left out of the file name
LockFileNameWithoutName(name, lock_file_prefix) ==
    IF lock_file_prefix # NoneStr THEN lock_file_prefix ELSE <<"lock">>

LockFileName(name, lock_file_prefix) ==
    LET n == Replace(name, Sep, "_")
    IN  IF lock_file_prefix # NoneStr
        THEN lock_file_prefix
             \o (IF EndsWith(lock_file_prefix, "-") THEN <<>> ELSE <<"-">>)
             \o n
        ELSE n

LocalLockPath(lock_path, conf) == IF lock_path # NoneStr THEN lock_path ELSE conf

\* <<TRUE, path>>, or <<FALSE, <<>>>> for cfg.RequiredOptError('lock_path')
GetLockPath(name, lock_file_prefix, lock_path, conf) ==
    LET local_lock_path == LocalLockPath(lock_path, conf)
    IN  IF local_lock_path = NoneStr
        THEN <<FALSE, <<>>>>
        ELSE <<TRUE, Join(local_lock_path, LockFileName(name, lock_file_prefix))>>

Paths == {Join(d, LockFileName(n, p)) : d \in Dirs, n \in Names, p \in Prefixes}

-----------------------------------------------------------------------------
(* Calls *)

NoCall == [name |-> NoneStr, lock_file_prefix |-> NoneStr, external |-> FALSE,
           lock_path |-> NoneStr, kind |-> "none", semaphores |-> "None",
           arg |-> 0]

\* The result of the operation wrapped by synchronized, as a function of
\* its argument
F(a) == a + 10

\* Mutant: the semaphores argument is ignored
RegOfDefaultOnly(t) == <<proc[t], "default">>

\* internal_lock: the registry a call uses, the process-wide _semaphores
\* when the semaphores argument is None
RegOf(t) ==
    <<proc[t], IF call[t].semaphores = "None" THEN "default" ELSE call[t].semaphores>>

\* the entry a thread's int_lock refers to
EntryOf(t) == <<RegOf(t), call[t].name, int_lock[t]>>

\* Mutant: the external argument is ignored, no file lock is ever taken
UseExternalNever(t) == FALSE

\* Mutant: disable_process_locking is ignored
UseExternalAlways(t) == call[t].external

\* lock(): "external and not CONF.oslo_concurrency.disable_process_locking"
UseExternal(t) == call[t].external /\ ~disable[proc[t]]

PathOf(t) ==
    GetLockPath(call[t].name, call[t].lock_file_prefix, call[t].lock_path,
                conf_lock_path[proc[t]])


-----------------------------------------------------------------------------
(* Semaphores *)

\* Mutant: get() does not take self._lock
MutexIgnored(r) == TRUE

\* "with self._lock" of Semaphores.get can be entered
MutexFree(r) == reg_lock[r] = ""

\* Mutant: get() never finds the name and makes a semaphore per call
LookupAlwaysMisses(r, n) == 0

\* "self._semaphores[name]": the entry stored for the name, 0 for KeyError
Lookup(r, n) == semaphores[r][n]

\* The locals of a lock() call that is suspended in its critical section
\* while the thread makes another call from there
NoFrame == [call |-> NoCall, int_lock |-> 0, t2 |-> FALSE, trace |-> <<>>,
            fargs |-> <<>>]

IsNested(t) == outer[t] # NoFrame

\* the registry of the suspended call
OuterRegOf(t) ==
    <<proc[t], IF outer[t].call.semaphores = "None" THEN "default"
               ELSE outer[t].call.semaphores>>

\* Mutant: the int_lock of a suspended call does not keep its entry alive
ReferencedByRunningCall(r, n, g) ==
    \E t \in Threads : int_lock[t] = g /\ RegOf(t) = r /\ call[t].name = n

\* Some thread holds a strong reference to entry <<r, n, g>>: the int_lock
\* local of a lock() call it is in
Referenced(r, n, g) ==
    \E t \in Threads :
        \/ int_lock[t] = g /\ RegOf(t) = r /\ call[t].name = n
        \/ outer[t].int_lock = g /\ OuterRegOf(t) = r /\ outer[t].call.name = n

\* threading.Semaphore(): a new object, distinct from every live one
NewSemaphore(r, n) ==
    CHOOSE g \in Gens :
        /\ ~Referenced(r, n, g) /\ semaphores[r][n] # g
        /\ \A h \in Gens :
              (~Referenced(r, n, h) /\ semaphores[r][n] # h) => g <= h

\* Semaphores.__len__
RegistryLen(r) == Cardinality({n \in Names : semaphores[r][n] # 0})

-----------------------------------------------------------------------------
(* The file lock (fasteners.InterProcessLock on the lock file): the lock   *)
(* belongs to the process, it is "unaware of a processes active threads".  *)

FileLockFree(path, p) == file_owner[path] \in {"", p}

FileUnlock(path, p) ==
    IF file_owner[path] = p THEN [file_owner EXCEPT ![path] = ""] ELSE file_owner

\* Positions between external_lock(...) and ext_lock.release()
ExtRegion == {"ext_wait", "body", "ext_release"}

InExtRegion(t) == pc[t] \in ExtRegion /\ UseExternal(t)

\* A thread of the same process is in the external region for the same
\* path with another semaphore (another name or another registry)
Aliased(t, path) ==
    \E s \in Threads \ {t} :
        /\ proc[s] = proc[t]
        /\ InExtRegion(s)
        /\ PathOf(s)[2] = path
        /\ <<RegOf(s), call[s].name>> # <<RegOf(t), call[t].name>>

-----------------------------------------------------------------------------
(* lock() and synchronized() *)

IsSync(t) == call[t].kind = "synchronized"

\* the arguments inner passes on: f(*args, **kwargs)
PassedArgs(t) == call[t].arg

\* Mutant: inner calls f and drops its result
ReturnedNothing(t, result) == 0

\* the value inner returns: return f(*args, **kwargs)
Returned(t, result) == result

\* Events of entering the critical section: the yield of lock(), and in
\* inner "t2 = time.time()", the 'acquired' log and the call of f
EnterBody(t, events) ==
    /\ pc' = [pc EXCEPT ![t] = "body"]
    /\ trace' = [trace EXCEPT ![t] = @ \o events \o <<"yield">>]
    /\ t2' = [t2 EXCEPT ![t] = IsSync(t)]
    /\ fargs' = [fargs EXCEPT ![t] = IF IsSync(t) THEN Append(@, PassedArgs(t)) ELSE @]

\* A caller enters lock(name, ...) or a synchronized(name, ...) wrapper
Call(t, c) ==
    /\ pc[t] \in {"idle", "done"}
    /\ ~IsNested(t)
    /\ pc' = [pc EXCEPT ![t] = "get"]
    /\ call' = [call EXCEPT ![t] = c]
    /\ exc' = [exc EXCEPT ![t] = "none"]
    /\ ret' = [ret EXCEPT ![t] = 0]
    /\ t2' = [t2 EXCEPT ![t] = FALSE]
    /\ trace' = [trace EXCEPT ![t] = <<>>]
    /\ fargs' = [fargs EXCEPT ![t] = <<>>]
    /\ UNCHANGED <<execVars, tryVars>>
    /\ UNCHANGED <<outer, proc, disable, conf_lock_path, semaphores, value, reg_lock,
                   file_owner, mixed, int_lock>>

\* The critical section itself calls lock(name, ...) or a synchronized
\* operation: the call in progress is suspended with its locals
NestedCall(t, c) ==
    /\ pc[t] = "body"
    /\ ~IsNested(t)
    /\ outer' = [outer EXCEPT ![t] = [call |-> call[t], int_lock |-> int_lock[t],
                                      t2 |-> t2[t], trace |-> trace[t],
                                      fargs |-> fargs[t]]]
    /\ pc' = [pc EXCEPT ![t] = "get"]
    /\ call' = [call EXCEPT ![t] = c]
    /\ int_lock' = [int_lock EXCEPT ![t] = 0]
    /\ exc' = [exc EXCEPT ![t] = "none"]
    /\ ret' = [ret EXCEPT ![t] = 0]
    /\ t2' = [t2 EXCEPT ![t] = FALSE]
    /\ trace' = [trace EXCEPT ![t] = <<>>]
    /\ fargs' = [fargs EXCEPT ![t] = <<>>]
    /\ UNCHANGED <<execVars, tryVars>>
    /\ UNCHANGED <<proc, disable, conf_lock_path, semaphores, value, reg_lock,
                   file_owner, mixed>>

\* The call made from the critical section has returned or raised: the
\* suspended critical section goes on
NestedReturn(t) ==
    /\ pc[t] = "done"
    /\ IsNested(t)
    /\ pc' = [pc EXCEPT ![t] = "body"]
    /\ call' = [call EXCEPT ![t] = outer[t].call]
    /\ int_lock' = [int_lock EXCEPT ![t] = outer[t].int_lock]
    /\ t2' = [t2 EXCEPT ![t] = outer[t].t2]
    /\ trace' = [trace EXCEPT ![t] = outer[t].trace]
    /\ fargs' = [fargs EXCEPT ![t] = outer[t].fargs]
    /\ exc' = [exc EXCEPT ![t] = "none"]
    /\ ret' = [ret EXCEPT ![t] = 0]
    /\ outer' = [outer EXCEPT ![t] = NoFrame]
    /\ UNCHANGED <<execVars, tryVars>>
    /\ UNCHANGED <<proc, disable, conf_lock_path, semaphores, value, reg_lock,
                   file_owner, mixed>>

\* Semaphores.get: take self._lock and look the name up
GetLookup(t) ==
    /\ pc[t] = "get"
    /\ MutexFree(RegOf(t))
    /\ LET g == Lookup(RegOf(t), call[t].name)
       IN  IF g # 0
           THEN /\ int_lock' = [int_lock EXCEPT ![t] = g]
                /\ pc' = [pc EXCEPT ![t] = "sem_wait"]
                /\ UNCHANGED reg_lock
           ELSE /\ reg_lock' = [reg_lock EXCEPT ![RegOf(t)] = t]
                /\ pc' = [pc EXCEPT ![t] = "create"]
                /\ UNCHANGED int_lock
    /\ UNCHANGED <<execVars, tryVars>>
    /\ UNCHANGED <<outer, proc, disable, conf_lock_path, semaphores, value, file_owner,
                   mixed, call, exc, ret, t2, trace, fargs>>

\* Semaphores.get, except KeyError: create, store, leave self._lock
GetCreate(t) ==
    /\ pc[t] = "create"
    /\ LET r == RegOf(t)
           n == call[t].name
           g == NewSemaphore(r, n)
       IN  /\ semaphores' = [semaphores EXCEPT ![r][n] = g]
           /\ value' = [value EXCEPT ![<<r, n, g>>] = 1]
           /\ int_lock' = [int_lock EXCEPT ![t] = g]
           /\ reg_lock' = [reg_lock EXCEPT ![r] = ""]
    /\ pc' = [pc EXCEPT ![t] = "sem_wait"]
    /\ UNCHANGED <<execVars, tryVars>>
    /\ UNCHANGED <<outer, proc, disable, conf_lock_path, file_owner, mixed, call, exc,
                   ret, t2, trace, fargs>>

\* "with int_lock:" is entered, then lock() runs up to its next blocking
\* point: the yield, the ext_lock.acquire, or the RequiredOptError
SemAcquire(t) ==
    /\ pc[t] = "sem_wait"
    /\ value[EntryOf(t)] > 0
    /\ value' = [value EXCEPT ![EntryOf(t)] = @ - 1]
    /\ IF UseExternal(t)
       THEN IF PathOf(t)[1]
            THEN /\ pc' = [pc EXCEPT ![t] = "ext_wait"]
                 /\ trace' = [trace EXCEPT ![t] = @ \o <<"sem_acquire", "path">>]
                 /\ mixed' = IF Aliased(t, PathOf(t)[2])
                             THEN mixed \cup {PathOf(t)[2]} ELSE mixed
                 /\ UNCHANGED <<exc, t2, fargs>>
            ELSE /\ pc' = [pc EXCEPT ![t] = "sem_release"]
                 /\ trace' = [trace EXCEPT ![t] = @ \o <<"sem_acquire">>]
                 /\ exc' = [exc EXCEPT ![t] = "RequiredOptError"]
                 /\ UNCHANGED <<mixed, t2, fargs>>
       ELSE /\ EnterBody(t, <<"sem_acquire">>)
            /\ UNCHANGED <<mixed, exc>>
    /\ UNCHANGED <<execVars, tryVars>>
    /\ UNCHANGED <<outer, proc, disable, conf_lock_path, semaphores, reg_lock,
                   file_owner, call, int_lock, ret>>

\* ext_lock.acquire(delay=delay) returns
ExtAcquire(t) ==
    /\ pc[t] = "ext_wait"
    /\ FileLockFree(PathOf(t)[2], proc[t])
    /\ file_owner' = [file_owner EXCEPT ![PathOf(t)[2]] = proc[t]]
    /\ EnterBody(t, <<"ext_acquire">>)
    /\ UNCHANGED <<execVars, tryVars>>
    /\ UNCHANGED <<outer, proc, disable, conf_lock_path, semaphores, value, reg_lock,
                   mixed, call, int_lock, exc, ret>>

\* Mutant: the file lock is not released after the yield
AfterBodyNoRelease(t) == "sem_release"

\* where control goes when the critical section ends normally
AfterBody(t) == IF UseExternal(t) THEN "ext_release" ELSE "sem_release"

\* Mutant: no try/finally around the yield, an exception skips the release
AfterRaiseNoFinally(t) == "sem_release"

\* where control goes when the critical section raises: the finally
\* clauses of lock()
AfterRaise(t) == IF UseExternal(t) THEN "ext_release" ELSE "sem_release"

\* The critical section ends normally
BodyReturn(t) ==
    /\ pc[t] = "body"
    /\ pc' = [pc EXCEPT ![t] = AfterBody(t)]
    /\ ret' = [ret EXCEPT ![t] = IF IsSync(t) THEN Returned(t, F(fargs[t][1])) ELSE 0]
    /\ UNCHANGED <<execVars, tryVars>>
    /\ UNCHANGED <<outer, proc, disable, conf_lock_path, semaphores, value, reg_lock,
                   file_owner, mixed, call, int_lock, exc, t2, trace, fargs>>

\* The critical section raises
BodyRaise(t) ==
    /\ pc[t] = "body"
    /\ pc' = [pc EXCEPT ![t] = AfterRaise(t)]
    /\ exc' = [exc EXCEPT ![t] = "BodyError"]
    /\ UNCHANGED <<execVars, tryVars>>
    /\ UNCHANGED <<outer, proc, disable, conf_lock_path, semaphores, value, reg_lock,
                   file_owner, mixed, call, int_lock, ret, t2, trace, fargs>>

\* finally: ext_lock.release()
ExtRelease(t) ==
    /\ pc[t] = "ext_release"
    /\ file_owner' = FileUnlock(PathOf(t)[2], proc[t])
    /\ trace' = [trace EXCEPT ![t] = Append(@, "ext_release")]
    /\ pc' = [pc EXCEPT ![t] = "sem_release"]
    /\ mixed' = IF \E s \in Threads \ {t} : InExtRegion(s) /\ PathOf(s)[2] = PathOf(t)[2]
                THEN mixed ELSE mixed \ {PathOf(t)[2]}
    /\ UNCHANGED <<execVars, tryVars>>
    /\ UNCHANGED <<outer, proc, disable, conf_lock_path, semaphores, value, reg_lock,
                   call, int_lock, exc, ret, t2, fargs>>

\* what inner's finally logs: held_secs is "N/A" when t2 is None
HeldLog(t) ==
    IF ~IsSync(t) THEN <<>>
    ELSE IF t2[t] THEN <<"log_held">> ELSE <<"log_held_na">>

\* Mutant: the release is lost
SemaphoreReleaseLost(v) == v

\* threading.Semaphore.release, at the exit of "with int_lock:"
SemaphoreReleased(v) == v + 1

\* "with int_lock:" is left, lock() ends and drops int_lock; inner's
\* finally logs the hold time; the result or the exception reaches the caller
SemRelease(t) ==
    /\ pc[t] = "sem_release"
    /\ value' = [value EXCEPT ![EntryOf(t)] = SemaphoreReleased(@)]
    /\ int_lock' = [int_lock EXCEPT ![t] = 0]
    /\ trace' = [trace EXCEPT ![t] = @ \o <<"sem_release">> \o HeldLog(t)]
    /\ pc' = [pc EXCEPT ![t] = "done"]
    /\ UNCHANGED <<execVars, tryVars>>
    /\ UNCHANGED <<outer, proc, disable, conf_lock_path, semaphores, reg_lock,
                   file_owner, mixed, call, exc, ret, t2, fargs>>

\* Mutant: the dictionary holds its values strongly
CollectableNever(r, n) == FALSE

\* The entry of the name is garbage: stored, and nothing else refers to it
Collectable(r, n) ==
    semaphores[r][n] # 0 /\ ~Referenced(r, n, semaphores[r][n])

\* The weak-value dictionary drops an entry nothing refers to any more
Collect(r, n) ==
    /\ Collectable(r, n)
    /\ semaphores' = [semaphores EXCEPT ![r][n] = 0]
    /\ UNCHANGED <<execVars, tryVars>>
    /\ UNCHANGED <<outer, proc, disable, conf_lock_path, value, reg_lock, file_owner,
                   mixed, pc, call, int_lock, exc, ret, t2, trace, fargs>>

-----------------------------------------------------------------------------
(* processutils.execute *)

LOG_ALL_ERRORS == 1
LOG_FINAL_ERROR == 2

MaxAttempts == 3
ExitCodes == {0, 1, 2}

\* check_exit_code as passed: a bool, an int or a list of ints
CecBool(b) == [type |-> "bool", b |-> b, v |-> 0, l |-> {}]
CecInt(v) == [type |-> "int", b |-> FALSE, v |-> v, l |-> {}]
CecList(l) == [type |-> "list", b |-> FALSE, v |-> 0, l |-> l]

\* Mutant: check_exit_code=False is taken for [0]
IgnoreExitCodeNever(cec) == FALSE

\* "ignore_exit_code" after the normalisation of check_exit_code
IgnoreExitCode(cec) == cec.type = "bool" /\ ~cec.b

\* "check_exit_code" after the normalisation: the accepted exit codes
AcceptedCodes(cec) ==
    IF cec.type = "bool" THEN {0}
    ELSE IF cec.type = "int" THEN {cec.v}
    ELSE cec.l

\* the attempt failed: "not ignore_exit_code and _returncode not in check_exit_code"
ExitCodeFails(cec, code) == ~IgnoreExitCode(cec) /\ code \notin AcceptedCodes(cec)

\* Mutant: the arguments are not checked
ArgumentErrorNone(o) == "none"

\* The error execute raises before its loop, "none" when the arguments pass
ArgumentError(o) ==
    IF o.unknown_kwargs THEN "UnknownArgumentError"
    ELSE IF o.log_errors \notin {0, LOG_ALL_ERRORS, LOG_FINAL_ERROR}
    THEN "InvalidArgumentError"
    ELSE IF o.run_as_root /\ ~o.euid_root /\ ~o.root_helper
    THEN "NoRootWrapSpecified"
    ELSE "none"

\* Texts (command lines, process output, log records) are sequences of
\* words; a command is a sequence of arguments, each a sequence of words
CmdPlain == << <<"ls">> >>
CmdSecret == << <<"mysql">>, <<"password=", "secret">> >>
RootHelper == << <<"sudo">> >>

NoText == <<>>
TextSecret == <<"password=", "secret">>
\* what the process wrote: stdout and stderr
Output(stdout, stderr) == [stdout |-> stdout, stderr |-> stderr]
OutPlain == Output(<<"out">>, NoText)
OutWarn == Output(<<"out">>, <<"warn">>)
OutSecret == Output(TextSecret, <<"warn">> \o TextSecret)
Outputs == {OutPlain, OutWarn, OutSecret}

\* ' '.join(cmd)
RECURSIVE JoinArgs(_)
JoinArgs(cmd) ==
    IF Len(cmd) = 0 THEN <<>>
    ELSE IF Len(cmd) = 1 THEN cmd[1]
    ELSE cmd[1] \o <<" ">> \o JoinArgs(Tail(cmd))

\* Mutant: nothing is masked
MaskNothing(s) == s

\* strutils.mask_password: the value that follows a password key is
\* replaced by '***'
MaskPassword(s) ==
    [i \in DOMAIN s |-> IF i > 1 /\ s[i - 1] = "password=" THEN "***" ELSE s[i]]

\* the command after the root helper was put in front of it
EffectiveCmd(o) ==
    IF o.run_as_root /\ ~o.euid_root THEN RootHelper \o o.cmd ELSE o.cmd

\* "sanitized_cmd"
SanitizedCmd(o) == MaskPassword(JoinArgs(EffectiveCmd(o)))

\* A string value: bytes or text, and its words
Str(kind, toks) == [kind |-> kind, toks |-> toks]
EmptyStr == Str("str", <<>>)
NoResult == [stdout |-> EmptyStr, stderr |-> EmptyStr]

\* what obj.communicate returns: bytes on Python 3, str on Python 2
CommunicateResult(o, out) ==
    [stdout |-> Str(IF o.py3 THEN "bytes" ELSE "str", out.stdout),
     stderr |-> Str(IF o.py3 THEN "bytes" ELSE "str", out.stderr)]

\* os.fsdecode
Fsdecode(s) == Str("str", s.toks)

\* the (stdout, stderr) that execute returns
Returns(o, result) ==
    IF o.py3 /\ ~o.binary
    THEN [stdout |-> Fsdecode(result.stdout), stderr |-> Fsdecode(result.stderr)]
    ELSE result

\* the attributes of a ProcessExecutionError
NoError == [cmd |-> NoText, stdout |-> EmptyStr, stderr |-> EmptyStr,
            description |-> "none"]

\* ProcessExecutionError(exit_code=_returncode, stdout=sanitized_stdout,
\*                       stderr=sanitized_stderr, cmd=sanitized_cmd)
ExecutionError(o, result) ==
    LET stdout == IF o.py3 THEN Fsdecode(result.stdout) ELSE result.stdout
        stderr == IF o.py3 THEN Fsdecode(result.stderr) ELSE result.stderr
    IN  [cmd |-> SanitizedCmd(o),
         stdout |-> Str(stdout.kind, MaskPassword(stdout.toks)),
         stderr |-> Str(stderr.kind, MaskPassword(stderr.toks)),
         description |-> "None"]

\* Mutant: the loop body runs once before attempts is looked at
LoopRunsFromZero(attempts) == attempts >= 0

\* "while attempts > 0"
LoopRuns(attempts) == attempts > 0

\* Mutant: the last retry is given up
NoAttemptsLeftEarly(attempts) == attempts <= 1

\* Mutant: a failure is never retried
NoAttemptsLeftAlways(attempts) == TRUE

\* "if not attempts": the failed attempt was the last one
NoAttemptsLeft(attempts) == attempts = 0

\* Mutant: LOG_FINAL_ERROR logs like LOG_ALL_ERRORS
LogsErrorAlways(log_errors, attempts) == log_errors # 0

\* the except clause logs the failure details
LogsError(log_errors, attempts) ==
    \/ log_errors = LOG_ALL_ERRORS
    \/ log_errors = LOG_FINAL_ERROR /\ NoAttemptsLeft(attempts)

\* the outcome of one attempt: how it ended, the exit code and the output
NoOutput == Output(NoText, NoText)
Attempt(kind, code, out) == [kind |-> kind, code |-> code, out |-> out]

\* the texts of the failure details that the except clause logs
ErrorDetails(o, err, payload) ==
    IF err = "OSError" THEN {SanitizedCmd(o)}
    ELSE {payload.cmd, payload.stdout.toks, payload.stderr.toks}

\* except (ProcessExecutionError, OSError) as err, with "remaining" the
\* value of attempts (already counted down): log, then re-raise or retry
Failed(err, code, out, payload, remaining, events) ==
    /\ x_codes' = Append(x_codes, Attempt(IF err = "OSError" THEN "oserror" ELSE "exit",
                                          code, out))
    /\ x_log' = x_log \cup {SanitizedCmd(x_opts)}
                  \cup (IF LogsError(x_opts.log_errors, remaining)
                        THEN ErrorDetails(x_opts, err, payload) ELSE {})
    /\ IF NoAttemptsLeft(remaining)
       THEN /\ x_pc' = "done"
            /\ x_exc' = err
            /\ x_exit_code' = code
            /\ x_err' = payload
            /\ x_events' = x_events \o events
                 \o (IF LogsError(x_opts.log_errors, remaining) THEN <<"log_error">> ELSE <<>>)
       ELSE /\ x_pc' = "loop"
            /\ x_events' = x_events \o events
                 \o (IF LogsError(x_opts.log_errors, remaining) THEN <<"log_error">> ELSE <<>>)
                 \o (IF x_opts.delay_on_retry THEN <<"sleep">> ELSE <<>>)
            /\ UNCHANGED <<x_exc, x_exit_code, x_err>>
    /\ UNCHANGED <<x_opts, x_ret, x_out>>

\* execute(*cmd, **kwargs) is called: the keyword arguments are read and
\* checked
Execute(o) ==
    /\ x_pc = "idle"
    /\ x_opts' = o
    /\ x_attempts' = o.attempts
    /\ x_codes' = <<>>
    /\ x_events' = <<>>
    /\ x_exit_code' = 0
    /\ x_ret' = "none"
    /\ x_exc' = ArgumentError(o)
    /\ x_pc' = IF ArgumentError(o) = "none" THEN "loop" ELSE "done"
    /\ UNCHANGED <<x_result, x_out, x_err, x_log>>
    /\ UNCHANGED <<lockVars, tryVars>>

\* The loop test fails: execute falls off its end and returns None
LoopExit ==
    /\ x_pc = "loop"
    /\ ~LoopRuns(x_attempts)
    /\ x_pc' = "done"
    /\ x_ret' = "None"
    /\ UNCHANGED <<x_opts, x_attempts, x_codes, x_events, x_exc, x_exit_code,
                   x_result, x_out, x_err, x_log>>
    /\ UNCHANGED <<lockVars, tryVars>>

\* An attempt starts: subprocess.Popen succeeds, on_execute is called
Popen ==
    /\ x_pc = "loop"
    /\ LoopRuns(x_attempts)
    /\ x_attempts' = x_attempts - 1
    /\ x_log' = x_log \cup {SanitizedCmd(x_opts)}
    /\ x_events' = x_events \o <<"spawn">>
                    \o (IF x_opts.on_execute THEN <<"on_execute">> ELSE <<>>)
    /\ x_pc' = "running"
    /\ UNCHANGED <<x_opts, x_codes, x_exc, x_exit_code, x_ret, x_result, x_out,
                   x_err>>
    /\ UNCHANGED <<lockVars, tryVars>>

\* An attempt starts: subprocess.Popen raises OSError
PopenFails ==
    /\ x_pc = "loop"
    /\ LoopRuns(x_attempts)
    /\ x_attempts' = x_attempts - 1
    /\ Failed("OSError", 0, NoOutput, NoError, x_attempts - 1, <<"spawn_error">>)
    /\ UNCHANGED x_result
    /\ UNCHANGED <<lockVars, tryVars>>

\* Mutant: on_completion is never called
CompletionEventsNoCallback(o) == <<"returncode">>

\* "_returncode = obj.returncode", then "if on_completion: on_completion(obj)"
CompletionEvents(o) ==
    <<"returncode">> \o (IF o.on_completion THEN <<"on_completion">> ELSE <<>>)

\* obj.communicate returns, the process has written "out" and has exited
\* with "code": on_completion is called, then the exit code is checked
Communicate(code, out) ==
    /\ x_pc = "running"
    /\ x_result' = CommunicateResult(x_opts, out)
    /\ LET result == CommunicateResult(x_opts, out)
           events == CompletionEvents(x_opts)
       IN  IF ExitCodeFails(x_opts.check_exit_code, code)
           THEN /\ Failed("ProcessExecutionError", code, out,
                          ExecutionError(x_opts, result), x_attempts, events)
                /\ UNCHANGED x_attempts
           ELSE /\ x_codes' = Append(x_codes, Attempt("ok", code, out))
                /\ x_events' = x_events \o events
                /\ x_log' = x_log \cup {SanitizedCmd(x_opts)}
                /\ x_pc' = "done"
                /\ x_ret' = "result"
                /\ x_out' = Returns(x_opts, result)
                /\ UNCHANGED <<x_opts, x_attempts, x_exc, x_exit_code, x_err>>
    /\ UNCHANGED <<lockVars, tryVars>>

\* obj.communicate raises OSError
CommunicateFails ==
    /\ x_pc = "running"
    /\ Failed("OSError", 0, NoOutput, NoError, x_attempts, <<"communicate_error">>)
    /\ UNCHANGED <<x_attempts, x_result>>
    /\ UNCHANGED <<lockVars, tryVars>>

\* The keyword arguments of a call and the platform it runs on
OptionsOf(attempts, cecs, log_errors, flags, cmds) ==
    [attempts : attempts,
     check_exit_code : cecs,
     log_errors : log_errors,
     unknown_kwargs : flags,
     run_as_root : flags, euid_root : flags, root_helper : flags,
     delay_on_retry : {TRUE},
     on_execute : BOOLEAN, on_completion : BOOLEAN,
     binary : {FALSE}, py3 : {TRUE}, cmd : cmds]

ExecOptions ==
    OptionsOf((0 - 1)..MaxAttempts,
              {CecBool(TRUE), CecBool(FALSE), CecInt(0), CecInt(2), CecList({1, 2})},
              {0, LOG_ALL_ERRORS, LOG_FINAL_ERROR, 3}, BOOLEAN, {CmdPlain})

InitExec ==
    /\ x_pc = "idle"
    /\ x_opts = CHOOSE o \in ExecOptions : TRUE
    /\ x_attempts = 0
    /\ x_codes = <<>>
    /\ x_events = <<>>
    /\ x_exc = "none"
    /\ x_exit_code = 0
    /\ x_ret = "none"
    /\ x_result = NoResult
    /\ x_out = NoResult
    /\ x_err = NoError
    /\ x_log = {}
    /\ tc_pc = "idle"
    /\ tc_discard = FALSE
    /\ tc_out = [out |-> EmptyStr, err |-> EmptyStr]
    /\ tc_exc = "none"

-----------------------------------------------------------------------------
(* processutils.trycmd *)

CodeText(code) == <<"0", "1", "2">>[code + 1]

\* six.text_type(exn): the message ProcessExecutionError.__init__ builds
ErrorText(e, code) ==
    <<"Unexpected error while running command.", "Command:">> \o e.cmd
    \o <<"Exit code:", CodeText(code), "Stdout:">> \o e.stdout.toks
    \o <<"Stderr:">> \o e.stderr.toks

\* Mutant: stderr is cleared whether or not the command failed
DiscardsAlways(failed, discard_warnings, err) == discard_warnings

\* "if not failed and discard_warnings and err"
Discards(failed, discard_warnings, err) ==
    ~failed /\ discard_warnings /\ err.toks # <<>>

\* Mutant: every error of execute becomes a result
ConvertsAnyError(e) == e # "none"

\* "except ProcessExecutionError as exn"
Converts(e) == e = "ProcessExecutionError"

\* trycmd(*args, **kwargs) is called: discard_warnings is taken out of the
\* keyword arguments
TrycmdCall(discard_warnings) ==
    /\ tc_pc = "idle"
    /\ x_pc = "idle"
    /\ tc_pc' = "called"
    /\ tc_discard' = discard_warnings
    /\ UNCHANGED <<tc_out, tc_exc>>
    /\ UNCHANGED <<lockVars, execVars>>

\* execute has returned or raised: trycmd builds its result
TrycmdReturn ==
    /\ tc_pc = "called"
    /\ x_pc = "done"
    /\ tc_pc' = "done"
    /\ IF Converts(x_exc)
       THEN LET err == Str("str", ErrorText(x_err, x_exit_code))
            IN  /\ tc_out' = [out |-> EmptyStr,
                              err |-> IF Discards(TRUE, tc_discard, err)
                                      THEN EmptyStr ELSE err]
                /\ tc_exc' = "none"
       ELSE IF x_exc # "none"
       THEN /\ tc_exc' = x_exc
            /\ UNCHANGED tc_out
       ELSE IF x_ret = "None"
       THEN /\ tc_exc' = "TypeError"
            /\ UNCHANGED tc_out
       ELSE /\ tc_out' = [out |-> x_out.stdout,
                          err |-> IF Discards(FALSE, tc_discard, x_out.stderr)
                                  THEN EmptyStr ELSE x_out.stderr]
            /\ tc_exc' = "none"
    /\ UNCHANGED tc_discard
    /\ UNCHANGED <<lockVars, execVars>>

-----------------------------------------------------------------------------
(* Specifications *)

InitThreads ==
    /\ semaphores = [r \in RegIds |-> [n \in Names |-> 0]]
    /\ value = [e \in Entries |-> 1]
    /\ reg_lock = [r \in RegIds |-> ""]
    /\ file_owner = [p \in Paths |-> ""]
    /\ mixed = {}
    /\ pc = [t \in Threads |-> "idle"]
    /\ call = [t \in Threads |-> NoCall]
    /\ int_lock = [t \in Threads |-> 0]
    /\ exc = [t \in Threads |-> "none"]
    /\ ret = [t \in Threads |-> 0]
    /\ t2 = [t \in Threads |-> FALSE]
    /\ trace = [t \in Threads |-> <<>>]
    /\ fargs = [t \in Threads |-> <<>>]
    /\ outer = [t \in Threads |-> NoFrame]

CallsOf(names, externals, kinds, args) ==
    [name : names, lock_file_prefix : {NoneStr}, external : externals,
     lock_path : {NoneStr}, kind : kinds, semaphores : {"None"}, arg : args]

\* Threads of one process take in-process locks through lock() and
\* through synchronized wrappers
Init ==
    /\ proc = [t \in Threads |-> "p1"]
    /\ disable = [p \in Procs |-> FALSE]
    /\ conf_lock_path = [p \in Procs |-> DirD]
    /\ InitThreads
    /\ InitExec

Next ==
    \/ \E t \in Threads :
          \E c \in CallsOf({NameAB, NameC}, {FALSE}, {"lock", "synchronized"}, {1}) :
              Call(t, c)
    \/ \E t \in Threads :
          \/ GetLookup(t)
          \/ GetCreate(t)
          \/ SemAcquire(t)
          \/ BodyReturn(t)
          \/ BodyRaise(t)
          \/ SemRelease(t)
    \/ \E r \in RegIds, n \in Names : Collect(r, n)

Spec == Init /\ [][Next]_vars

\* The configurations of the two processes: both with the same lock
\* directory, p1 without one, p1 with process locking disabled (and no
\* directory), each with a directory of its own
Configs ==
    { [dis |-> [p \in Procs |-> FALSE], path |-> [p \in Procs |-> DirD]],
      [dis |-> [p \in Procs |-> FALSE],
       path |-> [p \in Procs |-> IF p = "p1" THEN NoneStr ELSE DirD]],
      [dis |-> [p \in Procs |-> p = "p1"],
       path |-> [p \in Procs |-> IF p = "p1" THEN NoneStr ELSE DirD]],
      [dis |-> [p \in Procs |-> FALSE],
       path |-> [p \in Procs |-> IF p = "p1" THEN DirD ELSE DirE]] }

\* Two threads of process p1 and one thread of process p2 take
\* cross-process locks
InitExt ==
    /\ proc = [t \in Threads |-> IF t = "t3" THEN "p2" ELSE "p1"]
    /\ \E c \in Configs : disable = c.dis /\ conf_lock_path = c.path
    /\ InitThreads
    /\ InitExec

Steps(t) ==
    \/ GetLookup(t)
    \/ GetCreate(t)
    \/ SemAcquire(t)
    \/ ExtAcquire(t)
    \/ BodyReturn(t)
    \/ BodyRaise(t)
    \/ ExtRelease(t)
    \/ SemRelease(t)

NextExt ==
    \/ \E t \in {"t1", "t2"} :
          \E c \in CallsOf(Names, {TRUE}, {"lock"}, {0}) : Call(t, c)
    \/ \E c \in CallsOf({NameA_B}, {TRUE}, {"lock"}, {0}) : Call("t3", c)
    \/ \E t \in Threads : Steps(t)
    \/ \E r \in RegIds, n \in Names : Collect(r, n)

SpecExt == InitExt /\ [][NextExt]_vars

\* Two threads of one process call operations wrapped by synchronized,
\* with and without a lock directory
InitSync ==
    /\ proc = [t \in Threads |-> "p1"]
    /\ disable = [p \in Procs |-> FALSE]
    /\ \E d \in {NoneStr, DirD} : conf_lock_path = [p \in Procs |-> d]
    /\ InitThreads
    /\ InitExec

NextSync ==
    \/ \E t \in {"t1", "t2"} :
          \E c \in CallsOf({NameC}, BOOLEAN, {"synchronized"}, {1, 2}) : Call(t, c)
    \/ \E t \in Threads : Steps(t)
    \/ \E r \in RegIds, n \in Names : Collect(r, n)

SpecSync == InitSync /\ [][NextSync]_vars

\* Two threads of one process take and leave in-process locks on two
\* names; the garbage collector runs sooner or later
DefaultRegistry == <<"p1", "default">>

NextGC ==
    \/ \E t \in {"t1", "t2"} :
          \E c \in CallsOf({NameAB, NameC}, {FALSE}, {"lock"}, {0}) : Call(t, c)
    \/ \E t \in Threads :
          \/ GetLookup(t)
          \/ GetCreate(t)
          \/ SemAcquire(t)
          \/ BodyReturn(t)
          \/ BodyRaise(t)
          \/ SemRelease(t)
    \/ \E n \in Names : Collect(DefaultRegistry, n)

\* Three threads of one process take in-process locks on one name, through
\* the default registry and through a registry of their own
RegistryCalls ==
    [name : {NameC}, lock_file_prefix : {NoneStr}, external : {FALSE},
     lock_path : {NoneStr}, kind : {"lock", "synchronized"},
     semaphores : {"None", "custom"}, arg : {0}]

NextReg ==
    \/ \E t \in Threads : \E c \in RegistryCalls : Call(t, c)
    \/ \E t \in Threads :
          \/ GetLookup(t)
          \/ GetCreate(t)
          \/ SemAcquire(t)
          \/ BodyReturn(t)
          \/ BodyRaise(t)
          \/ SemRelease(t)
    \/ \E r \in RegIds, n \in Names : Collect(r, n)

SpecReg == Init /\ [][NextReg]_vars

\* One thread takes cross-process locks with every name, prefix and
\* lock_path argument, with and without a configured lock directory
PathCalls ==
    [name : Names, lock_file_prefix : Prefixes, external : {TRUE},
     lock_path : {NoneStr, DirE}, kind : {"lock"}, semaphores : {"None"},
     arg : {0}]

InitPath ==
    /\ proc = [t \in Threads |-> "p1"]
    /\ disable = [p \in Procs |-> FALSE]
    /\ \E d \in {NoneStr, DirD} : conf_lock_path = [p \in Procs |-> d]
    /\ InitThreads
    /\ InitExec

NextPath ==
    \/ \E c \in PathCalls : Call("t1", c)
    \/ Steps("t1")
    \/ \E r \in RegIds, n \in Names : Collect(r, n)

SpecPath == InitPath /\ [][NextPath]_vars

\* Two threads of one process take and leave in-process locks; every
\* thread that can take a step of lock() takes one sooner or later, so
\* every critical section ends. Nothing makes a thread call again.
LockSteps(t) ==
    \/ GetLookup(t)
    \/ GetCreate(t)
    \/ SemAcquire(t)
    \/ BodyReturn(t)
    \/ BodyRaise(t)
    \/ SemRelease(t)

NextLive ==
    \/ \E t \in {"t1", "t2"} :
          \E c \in CallsOf({NameAB, NameC}, {FALSE}, {"lock"}, {0}) : Call(t, c)
    \/ \E t \in Threads : LockSteps(t)
    \/ \E n \in Names : Collect(DefaultRegistry, n)

SpecLive ==
    /\ Init
    /\ [][NextLive]_vars
    /\ \A t \in {"t1", "t2"} : WF_vars(LockSteps(t))

\* Two threads of one process take in-process locks and, from inside a
\* critical section, take a second one, on the same name or on the other
NestedCalls == CallsOf({NameAB, NameC}, {FALSE}, {"lock", "synchronized"}, {0})

NextNested ==
    \/ \E t \in {"t1", "t2"} : \E c \in NestedCalls : Call(t, c)
    \/ \E t \in {"t1", "t2"} : \E c \in NestedCalls : NestedCall(t, c)
    \/ \E t \in Threads : NestedReturn(t)
    \/ \E t \in Threads : LockSteps(t)
    \/ \E n \in Names : Collect(DefaultRegistry, n)

SpecNested == Init /\ [][NextNested]_vars

SpecGC ==
    /\ Init
    /\ [][NextGC]_vars
    /\ \A n \in {NameAB, NameC} : WF_vars(Collect(DefaultRegistry, n))

InitX ==
    /\ proc = [t \in Threads |-> "p1"]
    /\ disable = [p \in Procs |-> FALSE]
    /\ conf_lock_path = [p \in Procs |-> DirD]
    /\ InitThreads
    /\ InitExec

NextExec ==
    \/ \E o \in ExecOptions : Execute(o)
    \/ LoopExit
    \/ Popen
    \/ PopenFails
    \/ \E code \in ExitCodes : Communicate(code, OutPlain)
    \/ CommunicateFails

SpecExec == InitX /\ [][NextExec]_vars

\* One call of execute with valid arguments (attempts from 0), whose attempts fail or
\* succeed with outputs that differ from one attempt to the next
RetryOptions ==
    OptionsOf(0..MaxAttempts, {CecBool(TRUE), CecBool(FALSE), CecList({1, 2})},
              {0, LOG_FINAL_ERROR}, {FALSE}, {CmdPlain})

NextRetry ==
    \/ \E o \in RetryOptions : Execute(o)
    \/ LoopExit
    \/ Popen
    \/ PopenFails
    \/ \E code \in ExitCodes, out \in {OutPlain, OutWarn} : Communicate(code, out)
    \/ CommunicateFails

SpecRetry == InitX /\ [][NextRetry]_vars

\* One call of trycmd: commands with and without a password, on Python 2
\* and 3, with text and binary output, failing and succeeding
TryOptions ==
    [attempts : {0, 1, 2},
     check_exit_code : {CecBool(TRUE), CecBool(FALSE)},
     log_errors : {0, LOG_ALL_ERRORS, 3},
     unknown_kwargs : BOOLEAN,
     run_as_root : BOOLEAN, euid_root : {FALSE}, root_helper : BOOLEAN,
     delay_on_retry : {TRUE},
     on_execute : {TRUE}, on_completion : {TRUE},
     binary : BOOLEAN, py3 : BOOLEAN, cmd : {CmdPlain, CmdSecret}]

NextTry ==
    \/ \E d \in BOOLEAN : TrycmdCall(d)
    \/ \E o \in TryOptions : tc_pc = "called" /\ Execute(o)
    \/ LoopExit
    \/ Popen
    \/ PopenFails
    \/ \E code \in {0, 1}, out \in Outputs : Communicate(code, out)
    \/ CommunicateFails
    \/ TrycmdReturn

SpecTry == InitX /\ [][NextTry]_vars

-----------------------------------------------------------------------------
(* Vocabulary of the properties *)

\* The thread is inside the critical section its lock guards
InCritical(t) == pc[t] = "body"

\* The thread has entered "with int_lock:" and not left it
HoldsSemaphore(t) == pc[t] \in {"ext_wait", "body", "ext_release", "sem_release"}

\* The call asks for a file lock and process locking is enabled
WantsFile(t) == pc[t] # "idle" /\ call[t].external /\ ~disable[proc[t]]

\* The lock directory of the call: its lock_path argument, else the
\* configured one
DirOf(t) ==
    IF call[t].lock_path # NoneStr THEN call[t].lock_path
    ELSE conf_lock_path[proc[t]]

\* The thread has acquired the file lock and not released it
HoldsFile(t) == WantsFile(t) /\ pc[t] \in {"body", "ext_release"}

SameSemaphore(t, s) ==
    /\ proc[t] = proc[s]
    /\ call[t].semaphores = call[s].semaphores
    /\ call[t].name = call[s].name

IsPrefix(a, b) == Len(a) <= Len(b) /\ SubSeq(b, 1, Len(a)) = a

Occurs(e, seq) == \E i \in DOMAIN seq : seq[i] = e

-----------------------------------------------------------------------------
(* C1 *)

\* C1: within one process and one registry, for every name at most one
\* thread is inside a critical section guarded by that name, whether it
\* was entered through lock() or through a synchronized wrapper: the
\* number of threads inside never exceeds 1.
C1_MutualExclusion ==
    \A r \in RegIds, n \in Names :
        Cardinality({t \in Threads :
            InCritical(t) /\ RegOf(t) = r /\ call[t].name = n}) <= 1

\* A thread is inside a lock(n) block while a synchronized(n) call of
\* another thread waits for the same semaphore
C1_Witness ==
    \E t, s \in Threads :
        /\ t # s
        /\ SameSemaphore(t, s)
        /\ InCritical(t) /\ call[t].kind = "lock"
        /\ pc[s] = "sem_wait" /\ call[s].kind = "synchronized"
        /\ value[EntryOf(s)] = 0

-----------------------------------------------------------------------------
(* C6 *)

\* C6: at most one live entry exists per name and registry. All threads
\* that hold a reference to an entry of a name hold the same entry, it is
\* the one the registry stores for the name, and a thread creates an entry
\* only while no thread holds a reference to one of that name.
C6_OneEntryPerName ==
    \A t \in Threads :
        /\ int_lock[t] # 0 =>
              /\ semaphores[RegOf(t)][call[t].name] = int_lock[t]
              /\ \A s \in Threads :
                    (SameSemaphore(t, s) /\ int_lock[s] # 0) =>
                        int_lock[s] = int_lock[t]
        /\ pc[t] = "create" =>
              /\ semaphores[RegOf(t)][call[t].name] = 0
              /\ \A s \in Threads : SameSemaphore(t, s) => int_lock[s] = 0

\* One thread holds the semaphore of a name, a second one waits on the
\* same entry, and a third one that asked for the same name is in get()
C6_Witness ==
    \E t, s, u \in Threads :
        /\ t # s /\ s # u /\ t # u
        /\ SameSemaphore(t, s) /\ SameSemaphore(t, u)
        /\ InCritical(t)
        /\ pc[s] = "sem_wait" /\ int_lock[s] = int_lock[t]
        /\ pc[u] = "get"

-----------------------------------------------------------------------------
(* C2 *)

\* The lock file name a call resolves to: the prefix, a hyphen unless the
\* prefix ends in one, and the name with "/" replaced by "_"
FileNameOf(t) ==
    LET pre == call[t].lock_file_prefix
        hyphen == IF pre = <<>> \/ pre[Len(pre)] = "-" THEN <<>> ELSE <<"-">>
    IN  (IF pre = <<>> THEN <<>> ELSE pre \o hyphen)
        \o [i \in DOMAIN call[t].name |->
               IF call[t].name[i] = "/" THEN "_" ELSE call[t].name[i]]

\* Two calls resolve to the same lock file
SameFile(t, s) ==
    DirOf(t) # <<>> /\ DirOf(t) = DirOf(s) /\ FileNameOf(t) = FileNameOf(s)

\* The thread cannot go on: it waits for a semaphore that is taken, or
\* for a file lock another process owns
BlockedOnSemaphore(t) == pc[t] = "sem_wait" /\ value[EntryOf(t)] = 0

BlockedOnFile(t) ==
    pc[t] = "ext_wait" /\ file_owner[PathOf(t)[2]] \notin {"", proc[t]}

\* C2 as stated: locks of different names never block one another, so a
\* blocked thread is blocked by a holder of a lock of its own name.
C2_DistinctNamesNeverBlock ==
    \A t \in Threads :
        /\ BlockedOnSemaphore(t) =>
              \E s \in Threads \ {t} :
                  HoldsSemaphore(s) /\ call[s].name = call[t].name
        /\ BlockedOnFile(t) =>
              \E s \in Threads \ {t} :
                  HoldsFile(s) /\ call[s].name = call[t].name

\* C2 amended: a thread blocked on a semaphore is blocked by a thread of
\* its process that holds the semaphore of the same name and registry, and
\* a thread blocked on a file lock is blocked by a thread of another
\* process that holds a lock on the same lock file; so locks of different
\* names block one another only as cross-process locks whose names resolve
\* to the same lock file (names that differ only in "/" against "_").
C2_BlockedOnlyBySameLock ==
    \A t \in Threads :
        /\ BlockedOnSemaphore(t) =>
              \E s \in Threads \ {t} : HoldsSemaphore(s) /\ SameSemaphore(s, t)
        /\ BlockedOnFile(t) =>
              \E s \in Threads \ {t} :
                  HoldsFile(s) /\ proc[s] # proc[t] /\ SameFile(s, t)

\* Two processes are inside cross-process critical sections of different
\* names and different lock files at once, neither delayed the other
C2_Witness ==
    \E t, s \in Threads :
        /\ proc[t] # proc[s]
        /\ call[t].name # call[s].name
        /\ DirOf(t) = DirOf(s) /\ ~SameFile(t, s)
        /\ HoldsFile(t) /\ InCritical(t)
        /\ HoldsFile(s) /\ InCritical(s)

-----------------------------------------------------------------------------
(* C3 *)

\* No other thread holds the semaphore of t's name / the file lock t's
\* call resolves to
NobodyHoldsSemaphoreOf(t) ==
    \A s \in Threads \ {t} : ~(HoldsSemaphore(s) /\ SameSemaphore(s, t))

NobodyHoldsFileOf(t) ==
    \A s \in Threads \ {t} : ~(HoldsFile(s) /\ SameFile(s, t))

\* C3: once an exception has propagated out of lock(name), the thread has
\* released what it acquired (the file lock, then the semaphore) and keeps
\* no reference; unless another thread has taken them since, the
\* semaphore of the name is free and the lock file has no owner, so both
\* can be acquired at once.
C3_ReleasedAfterException ==
    \A t \in Threads :
        (pc[t] = "done" /\ exc[t] # "none") =>
            /\ int_lock[t] = 0
            /\ Occurs("sem_acquire", trace[t]) => Occurs("sem_release", trace[t])
            /\ Occurs("ext_acquire", trace[t]) => Occurs("ext_release", trace[t])
            /\ NobodyHoldsSemaphoreOf(t) =>
                  \A g \in Gens : value[<<RegOf(t), call[t].name, g>>] = 1
            /\ (WantsFile(t) /\ DirOf(t) # <<>> /\ NobodyHoldsFileOf(t)) =>
                  file_owner[Join(DirOf(t), FileNameOf(t))] = ""

\* The critical section of a cross-process lock raised, and another thread
\* of the process is already inside the section of the same name
C3_Witness ==
    \E t, s \in Threads :
        /\ t # s /\ SameSemaphore(t, s)
        /\ pc[t] = "done" /\ exc[t] = "BodyError"
        /\ Occurs("ext_acquire", trace[t])
        /\ InCritical(s) /\ HoldsFile(s)

-----------------------------------------------------------------------------
(* C4 *)

ExternalOrder ==
    <<"sem_acquire", "path", "ext_acquire", "yield", "ext_release", "sem_release">>

\* C4: a cross-process lock request with process locking enabled and a
\* lock directory acquires the semaphore first and the file lock second,
\* and on leaving the critical section, normally or by an exception,
\* releases the file lock first and the semaphore second; a finished call
\* has done all four.
C4_AcquireReleaseOrder ==
    \A t \in Threads :
        (WantsFile(t) /\ DirOf(t) # <<>>) =>
            /\ IsPrefix(trace[t], ExternalOrder)
            /\ pc[t] = "done" => trace[t] = ExternalOrder
            /\ HoldsFile(t) => value[EntryOf(t)] = 0

\* A cross-process critical section was left by an exception
C4_Witness ==
    \E t \in Threads :
        /\ WantsFile(t) /\ DirOf(t) # <<>>
        /\ pc[t] = "done" /\ exc[t] = "BodyError"
        /\ trace[t] = ExternalOrder

-----------------------------------------------------------------------------
(* C5 *)

\* C5 as stated: a cross-process request without any lock directory fails
\* before the semaphore is taken: the failed call has not acquired the
\* semaphore, and such a call is never blocked waiting for it.
C5_FailsBeforeSemaphore ==
    \A t \in Threads :
        /\ exc[t] = "RequiredOptError" => ~Occurs("sem_acquire", trace[t])
        /\ (WantsFile(t) /\ DirOf(t) = <<>>) => ~BlockedOnSemaphore(t)

-----------------------------------------------------------------------------
(* C7 *)

\* Two threads of different processes whose cross-process requests, with
\* process locking enabled in both, resolve to the same lock file
SameFileAcrossProcesses(t, s) ==
    /\ proc[t] # proc[s]
    /\ WantsFile(t) /\ WantsFile(s)
    /\ SameFile(t, s)

-----------------------------------------------------------------------------
(* C8 *)

InProcessOrder == <<"sem_acquire", "yield", "sem_release">>

\* The call asks for a file lock in a process with process locking disabled
Degraded(t) == pc[t] # "idle" /\ call[t].external /\ disable[proc[t]]

\* C8: with disable_process_locking set, a request with external=True
\* acquires and releases the semaphore of the name and nothing else: it
\* derives no lock path and touches no file lock, so it never fails for a
\* missing lock directory and its process never owns a lock file, and it
\* still excludes the other critical sections of the name in its process.
C8_DegradesToInProcess ==
    /\ \A t \in Threads :
          Degraded(t) =>
              /\ IsPrefix(trace[t], InProcessOrder)
              /\ exc[t] # "RequiredOptError"
              /\ pc[t] \notin {"ext_wait", "ext_release"}
              /\ pc[t] = "done" => trace[t] = InProcessOrder
              /\ InCritical(t) =>
                    /\ value[EntryOf(t)] = 0
                    /\ \A s \in Threads \ {t} :
                          SameSemaphore(s, t) => ~InCritical(s)
    /\ \A f \in Paths : \A p \in Procs : disable[p] => file_owner[f] # p

\* With process locking disabled and no lock directory, a request with
\* external=True is inside its critical section and another one for the
\* same name waits for the semaphore
C8_Witness ==
    \E t, s \in Threads :
        /\ t # s /\ SameSemaphore(t, s)
        /\ Degraded(t) /\ Degraded(s)
        /\ DirOf(t) = <<>>
        /\ InCritical(t)
        /\ BlockedOnSemaphore(s)

-----------------------------------------------------------------------------
(* C9 *)

IsWrapped(t) == call[t].kind = "synchronized"

EndsWith2(seq, a, b) ==
    Len(seq) >= 2 /\ seq[Len(seq) - 1] = a /\ seq[Len(seq)] = b

\* C9 as stated: each call of a synchronized wrapper invokes the wrapped
\* operation exactly once.
C9_InvokedExactlyOnce ==
    \A t \in Threads :
        (IsWrapped(t) /\ pc[t] = "done") => Len(fargs[t]) = 1

\* C9 amended: each call of a synchronized wrapper that acquires the named
\* lock invokes the wrapped operation exactly once, with the caller's
\* arguments and only while the lock is held; it returns the operation's
\* result unchanged, or re-raises the operation's error after the lock is
\* released and the hold time logged. A call whose lock cannot be acquired
\* (a cross-process request without a lock directory) never invokes the
\* operation: it raises the configuration error after releasing the
\* semaphore and logging the hold time as "N/A".
C9_WrapperContract ==
    \A t \in Threads :
        IsWrapped(t) =>
            /\ fargs[t] \in {<<>>, <<call[t].arg>>}
            /\ InCritical(t) <=> (fargs[t] # <<>> /\ pc[t] \notin {"ext_release", "sem_release", "done"})
            /\ InCritical(t) =>
                  /\ value[EntryOf(t)] = 0
                  /\ WantsFile(t) => file_owner[Join(DirOf(t), FileNameOf(t))] = proc[t]
            /\ pc[t] = "done" =>
                  /\ exc[t] = "none" =>
                        /\ fargs[t] = <<call[t].arg>>
                        /\ ret[t] = F(call[t].arg)
                        /\ EndsWith2(trace[t], "sem_release", "log_held")
                  /\ exc[t] = "BodyError" =>
                        /\ fargs[t] = <<call[t].arg>>
                        /\ ret[t] = 0
                        /\ EndsWith2(trace[t], "sem_release", "log_held")
                  /\ exc[t] = "RequiredOptError" =>
                        /\ WantsFile(t) /\ DirOf(t) = <<>>
                        /\ fargs[t] = <<>>
                        /\ ret[t] = 0
                        /\ EndsWith2(trace[t], "sem_release", "log_held_na")
                  /\ (WantsFile(t) /\ DirOf(t) = <<>>) <=> fargs[t] = <<>>

\* One wrapped call has returned the operation's result and another has
\* re-raised the operation's error, each after one invocation
C9_Witness ==
    \E t, s \in Threads :
        /\ t # s /\ IsWrapped(t) /\ IsWrapped(s)
        /\ pc[t] = "done" /\ exc[t] = "none" /\ ret[t] = F(call[t].arg)
        /\ pc[s] = "done" /\ exc[s] = "BodyError" /\ fargs[s] = <<call[s].arg>>
        /\ call[t].arg # call[s].arg

-----------------------------------------------------------------------------
(* C10 *)

\* Every attempt made so far ended with an exit code that was not accepted
AllAttemptsFailedOnExitCode ==
    \A i \in DOMAIN x_codes : x_codes[i].kind = "exit"

Count(e, seq) == Cardinality({i \in DOMAIN seq : seq[i] = e})

\* C10: when every attempt of a call with attempts = N >= 1 fails on its
\* exit code, execute spawns the process exactly N times and then raises
\* ProcessExecutionError with the exit code of the N-th attempt; it never
\* spawns more than N times.
C10_FailsAfterAllAttempts ==
    (x_pc # "idle" /\ ArgumentError(x_opts) = "none" /\ x_opts.attempts >= 1) =>
        /\ Count("spawn", x_events) <= x_opts.attempts
        /\ (x_pc = "done" /\ AllAttemptsFailedOnExitCode) =>
              /\ Count("spawn", x_events) = x_opts.attempts
              /\ Len(x_codes) = x_opts.attempts
              /\ x_exc = "ProcessExecutionError"
              /\ x_exit_code = x_codes[x_opts.attempts].code
              /\ x_ret = "none"

\* Three attempts failed with three exit codes, the last of them differs
\* from the first
C10_Witness ==
    /\ x_pc = "done"
    /\ x_opts.attempts = MaxAttempts
    /\ Len(x_codes) = MaxAttempts
    /\ AllAttemptsFailedOnExitCode
    /\ x_codes[1].code # x_codes[MaxAttempts].code
    /\ x_exc = "ProcessExecutionError"

-----------------------------------------------------------------------------
(* C11 *)

\* the number of times the call tried to spawn the process
Spawns == Count("spawn", x_events) + Count("spawn_error", x_events)

\* the call was made with arguments that execute accepts
ValidCall == x_pc # "idle" /\ ArgumentError(x_opts) = "none"

\* C11: exit-code failures and OSErrors are retried alike: with
\* attempts = N >= 1, when attempts 1..k-1 failed in either way and attempt
\* k <= N succeeds, execute has spawned exactly k times, returns the output
\* of attempt k and raises nothing; a failure reaches the caller only when
\* it happened on the N-th attempt, and no attempt follows a success.
C11_RetriesUntilSuccess ==
    (ValidCall /\ x_opts.attempts >= 1) =>
        LET k == Len(x_codes)
        IN  /\ k <= x_opts.attempts
            /\ \A i \in 1..(k - 1) : x_codes[i].kind \in {"exit", "oserror"}
            /\ (k > 0 /\ x_codes[k].kind = "ok") =>
                  /\ x_pc = "done"
                  /\ Spawns = k
                  /\ x_ret = "result"
                  /\ x_out = Returns(x_opts, CommunicateResult(x_opts, x_codes[k].out))
                  /\ x_exc = "none"
            /\ (x_exc # "none") =>
                  /\ k = x_opts.attempts
                  /\ x_codes[k].kind \in {"exit", "oserror"}
                  /\ x_exc = (IF x_codes[k].kind = "exit"
                              THEN "ProcessExecutionError" ELSE "OSError")
                  /\ x_ret = "none"
            /\ (x_pc = "done") => (x_exc # "none" \/ x_codes[k].kind = "ok")

\* The third of three attempts succeeds after a spawn failure and an
\* exit-code failure, with an output the second attempt did not have
C11_Witness ==
    /\ x_pc = "done"
    /\ x_opts.attempts = MaxAttempts
    /\ Len(x_codes) = 3
    /\ x_codes[1].kind = "oserror"
    /\ x_codes[2].kind = "exit"
    /\ x_codes[3].kind = "ok"
    /\ x_codes[3].out # x_codes[2].out
    /\ x_out.stderr.toks = x_codes[3].out.stderr
    /\ x_exc = "none"

-----------------------------------------------------------------------------
(* C12 *)

\* The exit-code policy as stated: does check_exit_code accept the code
PolicyAccepts(cec, code) ==
    CASE cec.type = "bool" /\ cec.b -> code = 0
      [] cec.type = "bool" /\ ~cec.b -> TRUE
      [] cec.type = "int" -> code = cec.v
      [] cec.type = "list" -> code \in cec.l

\* C12: check_exit_code True accepts only 0, False accepts every exit
\* code, an integer c accepts exactly c (also c = 0), a list accepts exactly
\* its members; an attempt whose process exited fails with
\* ProcessExecutionError if and only if its exit code is not accepted.
C12_ExitCodePolicy ==
    ValidCall =>
        /\ \A i \in DOMAIN x_codes :
              x_codes[i].kind # "oserror" =>
                  (x_codes[i].kind = "exit"
                      <=> ~PolicyAccepts(x_opts.check_exit_code, x_codes[i].code))
        /\ (x_exc = "ProcessExecutionError") =>
              ~PolicyAccepts(x_opts.check_exit_code, x_exit_code)
        /\ (x_ret = "result") =>
              PolicyAccepts(x_opts.check_exit_code, x_codes[Len(x_codes)].code)

\* Exit code 0 is refused by check_exit_code=[1, 2], then exit code 2 is
\* accepted
C12_Witness ==
    /\ x_pc = "done"
    /\ x_opts.check_exit_code = CecList({1, 2})
    /\ Len(x_codes) = 2
    /\ x_codes[1] = Attempt("exit", 0, OutPlain)
    /\ x_codes[2] = Attempt("ok", 2, OutPlain)
    /\ x_ret = "result"

-----------------------------------------------------------------------------
(* C13 *)

\* The errors that the arguments of the call in progress deserve
ArgumentFaults ==
    (IF x_opts.unknown_kwargs THEN {"UnknownArgumentError"} ELSE {})
    \cup (IF x_opts.log_errors \notin {0, LOG_ALL_ERRORS, LOG_FINAL_ERROR}
          THEN {"InvalidArgumentError"} ELSE {})
    \cup (IF x_opts.run_as_root /\ ~x_opts.root_helper /\ ~x_opts.euid_root
          THEN {"NoRootWrapSpecified"} ELSE {})

\* C13: an unknown option name, a log_errors value other than None,
\* LOG_ALL_ERRORS and LOG_FINAL_ERROR, or run_as_root without a root helper
\* in an unprivileged process each end the call with the matching error,
\* no spawn, no callback and no retry, whatever attempts is; a call
\* without such a fault raises none of these errors.
C13_ArgumentErrorsBeforeSpawn ==
    (x_pc # "idle") =>
        IF ArgumentFaults # {}
        THEN /\ x_pc = "done"
             /\ x_exc \in ArgumentFaults
             /\ x_events = <<>>
             /\ x_codes = <<>>
             /\ x_attempts = x_opts.attempts
             /\ x_ret = "none"
        ELSE x_exc \in {"none", "ProcessExecutionError", "OSError"}

\* run_as_root without a root helper, three attempts asked for
C13_Witness ==
    /\ x_pc = "done"
    /\ x_opts.attempts = MaxAttempts
    /\ x_opts.run_as_root /\ ~x_opts.root_helper /\ ~x_opts.euid_root
    /\ ~x_opts.unknown_kwargs
    /\ x_opts.on_execute /\ x_opts.on_completion
    /\ x_exc = "NoRootWrapSpecified"
    /\ x_events = <<>>

-----------------------------------------------------------------------------
(* C14 *)

\* C14: trycmd never raises ProcessExecutionError; when execute raised it,
\* trycmd returns ('', text of the error) with a text that is not empty,
\* whether or not discard_warnings is set; when execute returned a result,
\* trycmd returns (stdout, '') with discard_warnings and (stdout, stderr)
\* without it.
C14_TrycmdResult ==
    (tc_pc = "done") =>
        /\ tc_exc # "ProcessExecutionError"
        /\ (x_exc = "ProcessExecutionError") =>
              /\ tc_exc = "none"
              /\ tc_out.out = EmptyStr
              /\ tc_out.err.toks # <<>>
              /\ tc_out.err = Str("str", ErrorText(x_err, x_exit_code))
        /\ (x_ret = "result") =>
              /\ tc_exc = "none"
              /\ tc_out.out = x_out.stdout
              /\ IF tc_discard THEN tc_out.err.toks = <<>>
                               ELSE tc_out.err = x_out.stderr

\* A command that wrote to stderr failed on both of its attempts, under
\* discard_warnings
C14_Witness ==
    /\ tc_pc = "done"
    /\ tc_discard
    /\ x_exc = "ProcessExecutionError"
    /\ Len(x_codes) = 2
    /\ x_codes[2].out = OutWarn
    /\ tc_out.out = EmptyStr
    /\ Occurs("warn", tc_out.err.toks)

-----------------------------------------------------------------------------
(* C15 *)

\* "masked" is the masked form of "raw": the same text, except that every
\* password value stands as '***'
IsMaskedFormOf(masked, raw) ==
    /\ Len(masked) = Len(raw)
    /\ ~Occurs("secret", masked)
    /\ \A i \in DOMAIN raw :
          masked[i] = (IF raw[i] = "secret" THEN "***" ELSE raw[i])

\* the output of the last attempt, as the process wrote it
LastOutput == x_codes[Len(x_codes)].out

\* C15: on success execute returns the stdout and stderr of the process
\* unmasked; the stdout, stderr and command line of a raised
\* ProcessExecutionError are the masked forms of what the process wrote and
\* of the command line, and no log record holds an unmasked password.
C15_MaskedOnlyOnFailure ==
    ValidCall =>
        /\ (x_ret = "result") =>
              /\ x_out.stdout.toks = LastOutput.stdout
              /\ x_out.stderr.toks = LastOutput.stderr
        /\ (x_exc = "ProcessExecutionError") =>
              /\ IsMaskedFormOf(x_err.stdout.toks, LastOutput.stdout)
              /\ IsMaskedFormOf(x_err.stderr.toks, LastOutput.stderr)
              /\ IsMaskedFormOf(x_err.cmd, JoinArgs(EffectiveCmd(x_opts)))
        /\ \A text \in x_log : ~Occurs("secret", text)

\* A command with a password on its command line and in its output
\* failed, and the failure details were logged
C15_Witness ==
    /\ x_pc = "done"
    /\ x_exc = "ProcessExecutionError"
    /\ x_opts.cmd = CmdSecret
    /\ x_opts.log_errors = LOG_ALL_ERRORS
    /\ LastOutput = OutSecret
    /\ Occurs("***", x_err.cmd)
    /\ x_err.stdout.toks \in x_log
    /\ x_err.stdout.toks # LastOutput.stdout

-----------------------------------------------------------------------------
(* C16 *)

\* the names whose entry some thread refers to
NamesReferenced(r) ==
    {n \in Names : \E g \in Gens : Referenced(r, n, g)}

\* the names whose entry is stored and that no thread refers to
NamesOfGarbage(r) ==
    {n \in Names : semaphores[r][n] # 0 /\ n \notin NamesReferenced(r)}

NoReferences == \A t \in Threads : int_lock[t] = 0

\* an entry that no thread refers to is removed, unless the name is
\* requested again first; once nothing is referred to, len() returns to 0
Reclaimed ==
    /\ \A n \in {NameAB, NameC} :
          (n \in NamesOfGarbage(DefaultRegistry))
              ~> (n \notin NamesOfGarbage(DefaultRegistry))
    /\ NoReferences ~> (RegistryLen(DefaultRegistry) = 0 \/ ~NoReferences)

\* C16 as stated: unreferenced entries are eventually removed and len()
\* returns to 0, and len() never exceeds the number of distinct names
\* that some thread refers to.
C16_LenBoundedByReferences ==
    /\ Reclaimed
    /\ [](RegistryLen(DefaultRegistry)
            <= Cardinality(NamesReferenced(DefaultRegistry)))

\* C16: unreferenced entries are eventually removed and len() returns to
\* 0; len() is never less than the number of distinct names that some
\* thread refers to, and exceeds it exactly by the entries that nothing
\* refers to and that the collector has not removed yet.
C16_ReclaimedAfterCollection ==
    /\ Reclaimed
    /\ [](RegistryLen(DefaultRegistry)
            = Cardinality(NamesReferenced(DefaultRegistry))
              + Cardinality(NamesOfGarbage(DefaultRegistry)))

\* Both threads have left their locks, on different names, and the
\* registry is empty again
C16_Witness ==
    /\ pc["t1"] = "done" /\ pc["t2"] = "done"
    /\ call["t1"].name # call["t2"].name
    /\ NoReferences
    /\ RegistryLen(DefaultRegistry) = 0

-----------------------------------------------------------------------------
(* C17 *)

\* The registry the caller asked for: the process-wide default one when it
\* passed none
RequestedRegistry(t) ==
    <<proc[t], IF call[t].semaphores = "None" THEN "default" ELSE "custom">>

\* C17: requests that pass no registry all use the one default registry of
\* the process, so they exclude each other per name; requests for the same
\* name through two different registries get different entries, are in
\* their critical sections together and never wait for each other: a
\* thread waits only for a holder that asked for the same registry.
C17_RegistryIsolation ==
    \A t \in Threads :
        /\ (int_lock[t] # 0) =>
              semaphores[RequestedRegistry(t)][call[t].name] = int_lock[t]
        /\ BlockedOnSemaphore(t) =>
              \E s \in Threads \ {t} :
                  /\ HoldsSemaphore(s)
                  /\ call[s].name = call[t].name
                  /\ RequestedRegistry(s) = RequestedRegistry(t)
        /\ \A s \in Threads \ {t} :
              (InCritical(t) /\ InCritical(s) /\ call[s].name = call[t].name) =>
                  RequestedRegistry(s) # RequestedRegistry(t)

\* Two threads are inside the critical section of the same name, one
\* through the default registry and one through its own, while a third
\* waits for the default one
C17_Witness ==
    /\ InCritical("t1") /\ call["t1"].semaphores = "None"
    /\ InCritical("t2") /\ call["t2"].semaphores = "custom"
    /\ call["t1"].name = call["t2"].name
    /\ BlockedOnSemaphore("t3") /\ call["t3"].semaphores = "None"
    /\ call["t3"].name = call["t1"].name

-----------------------------------------------------------------------------
(* C18 *)

\* The name with every path separator replaced by '_'
RECURSIVE Sanitized(_)
Sanitized(name) ==
    IF name = <<>> THEN <<>>
    ELSE <<IF Head(name) = "/" THEN "_" ELSE Head(name)>> \o Sanitized(Tail(name))

\* Nothing without a prefix, the prefix when it ends in '-', the prefix
\* and one '-' otherwise
HyphenatedPrefix(prefix) ==
    IF prefix = <<>> THEN <<>>
    ELSE IF prefix[Len(prefix)] = "-" THEN prefix
    ELSE prefix \o <<"-">>

\* The lock directory: the lock_path argument before the configured one
LockDir(t) ==
    IF call[t].lock_path # <<>> THEN call[t].lock_path ELSE conf_lock_path[proc[t]]

ExpectedPath(t) ==
    Join(LockDir(t),
         HyphenatedPrefix(call[t].lock_file_prefix) \o Sanitized(call[t].name))

\* C18: the file a cross-process lock locks is join(lockDir, P + S), with
\* S the name with every separator replaced by '_', P empty without a
\* prefix, the prefix when it ends in '-' and the prefix plus one '-'
\* otherwise, and lockDir the lock_path argument when given, else the
\* configured directory; with neither the call fails with
\* RequiredOptError and locks no file.
C18_LockPathDerivation ==
    /\ \A t \in Threads :
          WantsFile(t) =>
              /\ HoldsFile(t) =>
                    /\ LockDir(t) # <<>>
                    /\ ExpectedPath(t) \in DOMAIN file_owner
                    /\ file_owner[ExpectedPath(t)] = proc[t]
              /\ (LockDir(t) = <<>>) =>
                    /\ pc[t] \notin ExtRegion
                    /\ (pc[t] = "done") => exc[t] = "RequiredOptError"
              /\ (LockDir(t) # <<>>) => exc[t] # "RequiredOptError"
    /\ \A path \in DOMAIN file_owner :
          (file_owner[path] # "") =>
              \E t \in Threads : HoldsFile(t) /\ ExpectedPath(t) = path

\* The lock 'a/b' with prefix 'p-' and lock_path '/e' holds /e/p-a_b
\* although another directory is configured
C18_Witness ==
    /\ InCritical("t1")
    /\ call["t1"].name = NameAB
    /\ call["t1"].lock_file_prefix = PrefixPHyphen
    /\ call["t1"].lock_path = DirE
    /\ conf_lock_path["p1"] = DirD
    /\ file_owner[<<"/", "e", "/", "p", "-", "a", "_", "b">>] = "p1"

-----------------------------------------------------------------------------
(* C19 *)

\* The thread is waiting for or holding the file lock, or releasing it
AtFileLock(t) == WantsFile(t) /\ pc[t] \in ExtRegion

\* C19: in one process and one registry at most one thread at a time is
\* acquiring or holding the file lock of a name; a thread is at the file
\* lock only while it holds the semaphore of the name, from before
\* ext_lock.acquire until after ext_lock.release.
C19_FileLockUnderSemaphore ==
    \A t \in Threads :
        /\ AtFileLock(t) =>
              /\ int_lock[t] # 0
              /\ semaphores[RequestedRegistry(t)][call[t].name] = int_lock[t]
              /\ value[<<RequestedRegistry(t), call[t].name, int_lock[t]>>] = 0
        /\ \A s \in Threads \ {t} :
              (/\ AtFileLock(t) /\ AtFileLock(s)
               /\ RequestedRegistry(s) = RequestedRegistry(t))
                  => call[s].name # call[t].name
        /\ (WantsFile(t) /\ Occurs("ext_acquire", trace[t])
                /\ ~Occurs("ext_release", trace[t])) => AtFileLock(t)

\* A thread waits for a lock file that another process holds, and keeps
\* the semaphore that a second thread of its process is waiting for
C19_Witness ==
    /\ pc["t1"] = "ext_wait" /\ BlockedOnFile("t1")
    /\ BlockedOnSemaphore("t2")
    /\ call["t2"].name = call["t1"].name
    /\ int_lock["t2"] = int_lock["t1"]
    /\ HoldsFile("t3")

-----------------------------------------------------------------------------
(* C20 *)

\* the event that follows event i, "end" after the last one
EventAfter(i) == IF i < Len(x_events) THEN x_events[i + 1] ELSE "end"

\* the event before event i, "start" before the first one
EventBefore(i) == IF i > 1 THEN x_events[i - 1] ELSE "start"

\* a call that was given both callbacks
WithCallbacks == ValidCall /\ x_opts.on_execute /\ x_opts.on_completion

\* on_execute comes right after each spawn and nowhere else, on_completion
\* right after each exit status and nowhere else, and a failed Popen is
\* followed by no callback
CallbackOrder ==
    \A i \in DOMAIN x_events :
        /\ (x_events[i] = "spawn") => EventAfter(i) = "on_execute"
        /\ (x_events[i] = "on_execute") =>
              /\ EventBefore(i) = "spawn"
              /\ EventAfter(i) \in {"returncode", "communicate_error", "end"}
        /\ (x_events[i] = "returncode") =>
              /\ EventBefore(i) = "on_execute"
              /\ EventAfter(i) = "on_completion"
        /\ (x_events[i] = "on_completion") => EventBefore(i) = "returncode"
        /\ (x_events[i] = "spawn_error") =>
              EventAfter(i) \notin {"on_execute", "on_completion", "returncode"}

\* C20 as stated: every attempt whose Popen succeeded has one on_execute
\* and one on_completion, every attempt whose Popen failed has neither.
C20_BothCallbacksPerSpawn ==
    WithCallbacks =>
        /\ CallbackOrder
        /\ Count("on_execute", x_events) = Count("spawn", x_events)
        /\ (x_pc # "running") =>
              Count("on_completion", x_events) = Count("spawn", x_events)

\* C20: on every attempt whose Popen succeeds on_execute is called once,
\* right after the spawn and before the wait; on_completion is called once
\* on every attempt whose wait returns an exit status, right after it and
\* before the exit code is checked, so also when the attempt then fails; an
\* attempt whose wait raises OSError has had on_execute and gets no
\* on_completion; an attempt whose Popen fails gets neither. The number
\* of on_execute calls is the number of successful spawns.
C20_CallbacksPerAttempt ==
    WithCallbacks =>
        /\ CallbackOrder
        /\ Count("on_execute", x_events) = Count("spawn", x_events)
        /\ Count("on_completion", x_events) = Count("returncode", x_events)
        /\ (x_pc # "running") =>
              Count("on_completion", x_events)
                  = Count("spawn", x_events) - Count("communicate_error", x_events)
        /\ Count("returncode", x_events)
              = Cardinality({i \in DOMAIN x_codes : x_codes[i].kind \in {"exit", "ok"}})

\* Three attempts: Popen fails, then the wait fails, then the exit code
\* is refused
C20_Witness ==
    /\ WithCallbacks
    /\ x_pc = "done"
    /\ Len(x_codes) = 3
    /\ x_codes[1].kind = "oserror" /\ x_events[1] = "spawn_error"
    /\ Occurs("communicate_error", x_events)
    /\ x_codes[3].kind = "exit"
    /\ Count("on_execute", x_events) = 2
    /\ Count("on_completion", x_events) = 1

-----------------------------------------------------------------------------
(* C21 *)

\* the attempts that failed, on the exit code or with an OSError
FailedAttempts == {i \in DOMAIN x_codes : x_codes[i].kind \in {"exit", "oserror"}}

\* the events that end a failed attempt: the failure details are logged
\* right after them or not at all
EndsFailedAttempt(i) ==
    \/ x_events[i] \in {"spawn_error", "communicate_error"}
    \/ /\ x_events[i] \in {"returncode", "on_completion"}
       /\ EventAfter(i) \notin {"on_completion", "end"}
    \/ /\ x_events[i] \in {"returncode", "on_completion"}
       /\ EventAfter(i) = "end" /\ x_pc = "done" /\ x_exc # "none"

\* C21: with LOG_ALL_ERRORS the failure details are logged once for each
\* failed attempt, right after it; with LOG_FINAL_ERROR once, for the
\* failed attempt that leaves no attempts, and for no earlier one, so never
\* in a call that succeeds; with None never.
C21_ErrorLoggingPolicy ==
    ValidCall =>
        /\ (x_opts.log_errors = LOG_ALL_ERRORS) =>
              /\ Count("log_error", x_events) = Cardinality(FailedAttempts)
              /\ \A i \in DOMAIN x_events :
                    (x_events[i] = "log_error") => EndsFailedAttempt(i - 1)
        /\ (x_opts.log_errors = LOG_FINAL_ERROR) =>
              /\ Count("log_error", x_events)
                    = (IF x_exc \in {"ProcessExecutionError", "OSError"} THEN 1 ELSE 0)
              /\ (x_exc \in {"ProcessExecutionError", "OSError"}) =>
                    /\ x_events[Len(x_events)] = "log_error"
                    /\ Len(x_codes) = x_opts.attempts
              /\ (x_ret = "result") => ~Occurs("log_error", x_events)
        /\ (x_opts.log_errors = 0) => ~Occurs("log_error", x_events)

\* Under LOG_FINAL_ERROR three attempts failed and only the last one was
\* logged
C21_Witness ==
    /\ x_pc = "done"
    /\ x_opts.log_errors = LOG_FINAL_ERROR
    /\ x_opts.attempts = MaxAttempts
    /\ Cardinality(FailedAttempts) = MaxAttempts
    /\ x_codes[1].kind = "oserror" /\ x_codes[MaxAttempts].kind = "exit"
    /\ Count("log_error", x_events) = 1
    /\ x_events[Len(x_events)] = "log_error"

-----------------------------------------------------------------------------
(* C22 *)

\* the threads waiting for the semaphore of name n
WaitersOf(n) == {t \in Threads : pc[t] = "sem_wait" /\ call[t].name = n}

\* the semaphore of name n can be taken
FreeFor(n) == \E t \in WaitersOf(n) : value[EntryOf(t)] > 0

\* some thread is inside the critical section of name n
Entered(n) == \E t \in Threads : InCritical(t) /\ call[t].name = n

\* a thread never waits forever for a semaphore that stays free, a blocked
\* thread sees the semaphore released, and a thread is blocked only while
\* another one holds the semaphore
NoLostWakeup ==
    /\ \A t \in Threads :
          /\ []<>~(pc[t] = "sem_wait" /\ value[EntryOf(t)] > 0)
          /\ BlockedOnSemaphore(t) ~> ~BlockedOnSemaphore(t)
    /\ [](\A t \in Threads :
            BlockedOnSemaphore(t) =>
                \E s \in Threads \ {t} : HoldsSemaphore(s) /\ SameSemaphore(t, s))

\* C22 as stated: when the lock of a name is free while threads wait for
\* it, one of those waiting threads enters its critical section, and no
\* thread waits forever for a free lock.
C22_WaiterEntersAfterRelease ==
    /\ \A n \in {NameAB, NameC} : \A S \in (SUBSET {"t1", "t2"}) \ {{}} :
          (WaitersOf(n) = S /\ FreeFor(n))
              ~> (\E t \in S : InCritical(t) /\ call[t].name = n)
    /\ NoLostWakeup

\* C22: when every critical section terminates and scheduling is fair,
\* whenever the lock of a name is free while threads wait for it, some
\* thread that requests it enters its critical section (not always one of
\* those that were waiting: the semaphore keeps no queue); no thread waits
\* forever for a lock that stays free, a blocked thread always has a
\* holder to wait for and sees the lock released.
C22_SomeThreadEnters ==
    /\ \A n \in {NameAB, NameC} :
          (WaitersOf(n) # {} /\ FreeFor(n)) ~> Entered(n)
    /\ NoLostWakeup

\* A thread has just released the lock that another thread waits for
C22_Witness ==
    /\ pc["t2"] = "done" /\ Occurs("sem_release", trace["t2"])
    /\ pc["t1"] = "sem_wait"
    /\ call["t1"].name = call["t2"].name
    /\ value[EntryOf("t1")] > 0
    /\ WaitersOf(call["t1"].name) = {"t1"}

-----------------------------------------------------------------------------
(* C23 *)

\* The thread is inside a critical section for a name and, from there,
\* has requested the lock of the same name through the same registry
Reentering(t) ==
    /\ IsNested(t)
    /\ call[t].name = outer[t].call.name
    /\ call[t].semaphores = outer[t].call.semaphores

\* the thread never gets further than the wait for the semaphore
NeverEnters(t) ==
    /\ pc[t] \in {"get", "create", "sem_wait"}
    /\ (pc[t] = "sem_wait") =>
          /\ int_lock[t] = outer[t].int_lock
          /\ value[EntryOf(t)] = 0
    /\ trace[t] = <<>>

\* C23: a thread that is inside the critical section of name n and
\* requests the lock of n again through the same registry, with lock() or
\* through a synchronized operation, waits for the semaphore it holds
\* itself: it never enters the inner critical section and, once it waits,
\* it waits forever.
C23_NotReentrant ==
    /\ [](\A t \in Threads : Reentering(t) => NeverEnters(t))
    /\ [][\A t \in Threads :
            (Reentering(t) /\ pc[t] = "sem_wait") =>
                (Reentering(t) /\ pc[t] = "sem_wait")']_vars

\* A thread waits for the lock it holds itself, and the other thread
\* waits for it too
C23_Witness ==
    /\ Reentering("t1") /\ pc["t1"] = "sem_wait"
    /\ call["t1"].kind = "synchronized" /\ outer["t1"].call.kind = "synchronized"
    /\ ~IsNested("t2") /\ BlockedOnSemaphore("t2")
    /\ call["t2"].name = call["t1"].name

-----------------------------------------------------------------------------
(* C24 *)

\* C24: a call of execute with attempts <= 0 and arguments that pass the
\* checks spawns nothing, calls no callback, logs nothing, raises nothing
\* and returns None; an attempt is made only while the count of remaining
\* attempts is positive, so never more than attempts times.
C24_NoAttemptsNoResult ==
    ValidCall =>
        /\ (x_opts.attempts <= 0) =>
              /\ x_pc \in {"loop", "done"}
              /\ x_events = <<>>
              /\ x_codes = <<>>
              /\ x_log = {}
              /\ x_exc = "none"
              /\ x_attempts = x_opts.attempts
              /\ (x_pc = "done") => (x_ret = "None" /\ x_out = NoResult)
        /\ (x_opts.attempts > 0) =>
              /\ x_attempts >= 0
              /\ Spawns <= x_opts.attempts
              /\ x_ret # "None"

\* A call with attempts = -1 and both callbacks has returned
C24_Witness ==
    /\ x_pc = "done"
    /\ ValidCall
    /\ x_opts.attempts = 0 - 1
    /\ x_opts.on_execute /\ x_opts.on_completion
    /\ x_ret = "None"

-----------------------------------------------------------------------------
(* C25 *)

\* the errors of execute that are not ProcessExecutionError
OtherErrors ==
    {"OSError", "UnknownArgumentError", "InvalidArgumentError", "NoRootWrapSpecified"}

\* C25: trycmd turns only ProcessExecutionError into a result: when the
\* last attempt of execute fails with an OSError, or execute rejects its
\* arguments, trycmd raises that same error and returns nothing.
C25_OtherErrorsPropagate ==
    (tc_pc = "done") =>
        /\ (x_exc \in OtherErrors) =>
              /\ tc_exc = x_exc
              /\ tc_out = [out |-> EmptyStr, err |-> EmptyStr]
        /\ (tc_exc \in OtherErrors) => tc_exc = x_exc
        /\ (x_exc = "OSError") =>
              /\ Len(x_codes) = x_opts.attempts
              /\ x_codes[Len(x_codes)].kind = "oserror"

\* The first attempt failed on its exit code and was retried, the second
\* could not be spawned: trycmd raises the OSError
C25_Witness ==
    /\ tc_pc = "done"
    /\ tc_discard
    /\ Len(x_codes) = 2
    /\ x_codes[1].kind = "exit"
    /\ x_codes[2].kind = "oserror"
    /\ x_events[Len(x_events)] = "spawn_error"
    /\ tc_exc = "OSError"

=============================================================================
